---- MODULE Spec2Model ----
(***************************************************************************)
(* A model of redis-ttk's local persistence and key search:                *)
(*   - Settings (src/config/settings.py): the connection store with its    *)
(*     ten-profile limit and the "__last__" entry, the debounced and the   *)
(*     immediate write of settings.json, the direct write of               *)
(*     connections.json, and the two loaders;                              *)
(*   - KeyBrowser.fuzzy_match and apply_search_filter                      *)
(*     (src/gui/key_browser.py).                                           *)
(* Each subsystem has its own specification (SpecConn, SpecSave,           *)
(* SpecSaveNow, SpecLoad, SpecMatch, SpecSearch); a specification leaves   *)
(* the other subsystems' variables untouched.                              *)
(***************************************************************************)
EXTENDS Integers, Sequences, FiniteSets, TLC

VARIABLES
    \* ---- connection store (Settings.connections, connections.json)
    connections,        \* self.connections: name -> profile record
    connections_file,   \* content of ~/.redis-ttk/connections.json
    now,                \* time.time(), advancing with every user operation
    cpc,                \* position of the GUI thread inside save_connections
    last,               \* history: the last store operation and the map before it
    restarted,          \* history: the process was restarted
    \* ---- settings record (Settings.app_settings, settings.json)
    app_settings,       \* self.app_settings
    config_file,        \* content of ~/.redis-ttk/settings.json
    temp_file,          \* content of ~/.redis-ttk/settings.tmp
    mainPc,             \* position of the GUI thread
    timer,              \* state of every threading.Timer created so far
    save_timer,         \* self._save_timer: 0 (None) or the newest Timer
    wpc,                \* position of each thread inside _do_save_app_settings
    fd,                 \* the file each thread's open handle refers to
    hist,               \* history of the settings writes
    \* ---- key search (KeyBrowser.fuzzy_match)
    pattern,            \* argument pattern
    text,               \* argument text
    result,             \* the returned tuple, or the not-yet-called marker
    \* ---- key list (KeyBrowser.apply_search_filter)
    keys_data,          \* self.keys_data: the keys fetched, in fetch order
    search_entry,       \* the text of self.search_entry
    tree,               \* the rows of self.tree, top to bottom
    loaded              \* history: the last load_keys call, the search text
                        \* and the number of keys it found

connVars  == <<connections, connections_file, now, cpc, last, restarted>>
saveVars  == <<app_settings, config_file, temp_file, mainPc, timer, save_timer,
               wpc, fd, hist>>
matchVars == <<pattern, text, result, keys_data, search_entry, tree, loaded>>
vars      == <<connVars, saveVars, matchVars>>

(***************************************************************************)
(* Bounds of the model.                                                    *)
(***************************************************************************)
NumNames    == 11   \* regular profile names are 1..NumNames
MaxCfg      == 2    \* RedisConfig values are RedisConfigOf(1..MaxCfg)
MaxTime     == 1    \* user operations on the connection store per run
MaxTimers   == 2    \* threading.Timer objects created per run
MaxPatLen   == 2    \* longest search pattern
MaxTextLen  == 3    \* longest key name
MaxKeys     == 3    \* longest list of fetched keys

(***************************************************************************)
(* Program constants.                                                      *)
(***************************************************************************)
LAST           == 0    \* the reserved name "__last__"
MaxConnections == 10   \* "if len(regular_connections) > 10"
DefaultFontSize  == 10    \* AppSettings.font_size
DefaultWidth     == 1200  \* AppSettings.window_width

RegularNames == 1..NumNames
Names        == RegularNames \cup {LAST}

(***************************************************************************)
(* Python values that json.dump and json.load convert: each carries its    *)
(* type; v numbers the values of the type (for a bool, 1 is True).         *)
(***************************************************************************)
None        == [type |-> "NoneType", v |-> 0]
PyStr(n)    == [type |-> "str",      v |-> n]
PyInt(n)    == [type |-> "int",      v |-> n]
PyFloat(n)  == [type |-> "float",    v |-> n]
PyBool(n)   == [type |-> "bool",     v |-> n]

\* RedisConfig (src/redis_client.py): the i-th configuration of the model;
\* the first has no password
RedisConfigOf(i) ==
    [host                   |-> PyStr(i),
     port                   |-> PyInt(6378 + i),
     password               |-> IF i = 1 THEN None ELSE PyStr(i),
     db                     |-> PyInt(i - 1),
     decode_responses       |-> PyBool(i % 2),
     socket_timeout         |-> PyFloat(4 + i),
     socket_connect_timeout |-> PyFloat(5 + i),
     retry_on_timeout       |-> PyBool((i + 1) % 2)]

ConfigFields == DOMAIN RedisConfigOf(1)
Configs      == {RedisConfigOf(i) : i \in 1..MaxCfg}
\* the config of an operation that takes none
NoConfig     == RedisConfigOf(0)

\* an entry of self.connections: the eight fields of the RedisConfig, and
\* the two times (time.time(), float seconds)
Entry(cfg, created_time, last_used) ==
    [f \in ConfigFields \cup {"created_time", "last_used"} |->
        CASE f = "created_time" -> created_time
          [] f = "last_used"    -> last_used
          [] OTHER              -> cfg[f]]

(***************************************************************************)
(* json.dump and json.load of the connection map.  A JSON value is null,   *)
(* true, false, a number without a fraction, a number with one, or a       *)
(* string: json.dump writes None, bool, int, float and str as these, and   *)
(* json.load reads them back as None, bool, int, float and str.            *)
(***************************************************************************)
\* (variant: None written as the text of str(None))
json_encode_str(x) ==
    CASE x.type = "NoneType" -> [tok |-> "string", v |-> 0]
      [] x.type = "bool"     -> [tok |-> IF x.v = 1 THEN "true" ELSE "false", v |-> 0]
      [] x.type = "int"      -> [tok |-> "integer", v |-> x.v]
      [] x.type = "float"    -> [tok |-> "real", v |-> x.v]
      [] x.type = "str"      -> [tok |-> "string", v |-> x.v]

json_encode(x) ==
    CASE x.type = "NoneType" -> [tok |-> "null", v |-> 0]
      [] x.type = "bool"     -> [tok |-> IF x.v = 1 THEN "true" ELSE "false", v |-> 0]
      [] x.type = "int"      -> [tok |-> "integer", v |-> x.v]
      [] x.type = "float"    -> [tok |-> "real", v |-> x.v]
      [] x.type = "str"      -> [tok |-> "string", v |-> x.v]

json_decode(j) ==
    CASE j.tok = "null"    -> None
      [] j.tok = "true"    -> PyBool(1)
      [] j.tok = "false"   -> PyBool(0)
      [] j.tok = "integer" -> PyInt(j.v)
      [] j.tok = "real"    -> PyFloat(j.v)
      [] j.tok = "string"  -> PyStr(j.v)

\* the document json.dump(self.connections, f) writes
json_dump(c) ==
    [n \in DOMAIN c |->
        [f \in DOMAIN c[n] |->
            IF f \in ConfigFields
            THEN json_encode(c[n][f])
            ELSE json_encode(PyFloat(c[n][f]))]]

\* the map json.load(f) returns
json_load(d) ==
    [n \in DOMAIN d |->
        [f \in DOMAIN d[n] |->
            IF f \in ConfigFields
            THEN json_decode(d[n][f])
            ELSE json_decode(d[n][f]).v]]
\* the names the user operations of a run are drawn from: two stored early,
\* the tenth, and every name past the limit
OpNames      == {1, 2, MaxConnections} \cup (MaxConnections + 1 .. NumNames)

(***************************************************************************)
(* Files.  A file is missing, unreadable (open raises), partial (created   *)
(* or truncated and not completely written, so json.load raises) or holds  *)
(* a complete JSON document.                                               *)
(***************************************************************************)
EmptyMap    == <<>>
NoFile      == [kind |-> "missing",    data |-> EmptyMap]
Unreadable  == [kind |-> "unreadable", data |-> EmptyMap]
PartialFile == [kind |-> "partial",    data |-> EmptyMap]
JsonFile(v) == [kind |-> "json",       data |-> v]

\* dict helpers
Restrict(c, S) == [k \in S |-> c[k]]
Put(c, k, v)   == [x \in (DOMAIN c) \cup {k} |-> IF x = k THEN v ELSE c[x]]
Update(c, m)   == [x \in (DOMAIN c) \cup (DOMAIN m) |->
                      IF x \in DOMAIN m THEN m[x] ELSE c[x]]

regular_connections(c) == {k \in DOMAIN c : k # LAST}

(***************************************************************************)
(* load_connections, lines 119-128.  The try block returns the parsed      *)
(* document, or raises when open or json.load do; the except clause prints *)
(* and the function returns {}.                                            *)
(***************************************************************************)
Returned(v) == [raised |-> FALSE, value |-> v]
RaisedIn(v) == [raised |-> TRUE,  value |-> v]

load_connections_try(f) ==
    CASE f.kind = "missing" -> Returned(EmptyMap)
      [] f.kind = "json"    -> Returned(json_load(f.data))
      [] OTHER              -> RaisedIn(EmptyMap)

\* (variant without the except clause)
load_connections_nocatch(f) == load_connections_try(f)

load_connections(f) ==
    IF load_connections_try(f).raised
    THEN Returned(EmptyMap)
    ELSE load_connections_try(f)

(***************************************************************************)
(* The eviction step of save_connection (lines 163-178): with more than    *)
(* ten regular entries the map becomes the ten entries with the largest    *)
(* last_used.  sorted() is stable, so among equal last_used the dict order *)
(* decides; the model keeps no dict order and allows either.  The new map  *)
(* is built from the regular entries only, and the test that follows       *)
(* ("__last__" in self.connections) reads the new map, so it never holds.  *)
(***************************************************************************)
\* (variant: the sort ascending, which keeps the ten oldest)
Newest(c) ==
    {d \in regular_connections(c) :
        \A k \in regular_connections(c) : c[d].last_used >= c[k].last_used}

\* the entries sorted() puts last
Oldest(c) ==
    {d \in regular_connections(c) :
        \A k \in regular_connections(c) : c[d].last_used <= c[k].last_used}

RECURSIVE Trim(_)
Trim(c) ==
    IF Cardinality(regular_connections(c)) <= MaxConnections
    THEN {c}
    ELSE UNION {Trim(Restrict(c, (DOMAIN c) \ {d})) : d \in Oldest(c)}

Evict(c) ==
    IF Cardinality(regular_connections(c)) > MaxConnections
    THEN {Restrict(t, regular_connections(t)) : t \in Trim(c)}
    ELSE {c}

(***************************************************************************)
(* save_connection, lines 142-161: the new entry.                          *)
(***************************************************************************)
\* (variant without lines 156-159)
connection_data_restamped(c, name, cfg, t) == Entry(cfg, t, t)

connection_data(c, name, cfg, t) ==
    [f \in ConfigFields \cup {"created_time", "last_used"} |->
        CASE f = "created_time" ->
                 IF name \in DOMAIN c THEN c[name].created_time ELSE t
          [] f = "last_used"    -> t
          [] f = "host"                   -> cfg.host
          [] f = "port"                   -> cfg.port
          [] f = "password"               -> cfg.password
          [] f = "db"                     -> cfg.db
          [] f = "decode_responses"       -> cfg.decode_responses
          [] f = "socket_timeout"         -> cfg.socket_timeout
          [] f = "socket_connect_timeout" -> cfg.socket_connect_timeout
          [] f = "retry_on_timeout"       -> cfg.retry_on_timeout]

\* get_connection(name), lines 182-203: the RedisConfig built from the eight
\* fields of the entry, or None
get_connection(c, name) ==
    IF name \in DOMAIN c
    THEN [f \in {"host", "port", "password", "db", "decode_responses",
                 "socket_timeout", "socket_connect_timeout",
                 "retry_on_timeout"} |-> c[name][f]]
    ELSE None

(***************************************************************************)
(* Connection files a start can find on disk: no file, an unreadable or a  *)
(* truncated one, or a document written by an earlier run (k profiles,     *)
(* stamped in the past, with or without the "__last__" entry).  A run that  *)
(* imported profiles can have written more than ten.                       *)
(***************************************************************************)
LoadedSizes == {0, 2, MaxConnections - 1, MaxConnections, MaxConnections + 1}

\* profile i of k, the profile named old being the least recently used
StoredProfile(i, k, old) ==
    Entry(RedisConfigOf(1), 0 - k - 1, ((i + k - old) % k) - k)

StoredMap(k, old, s) ==
    [n \in (1..k) \cup (IF s THEN {LAST} ELSE {}) |->
        IF n = LAST
        THEN Entry(RedisConfigOf(1), 0 - k - 1, 0)
        ELSE StoredProfile(n, k, old)]

StoredFiles ==
    {NoFile, Unreadable, PartialFile}
    \cup {JsonFile(json_dump(StoredMap(k, old, s))) :
              k \in LoadedSizes, old \in {1, 2}, s \in BOOLEAN}

(***************************************************************************)
(* Files offered to import_settings: their "connections" member.           *)
(***************************************************************************)
ImportProfile == Entry(RedisConfigOf(MaxCfg), 0 - 1, 0 - 1)

ImportMaps ==
    {[n \in S |-> ImportProfile] : S \in {{NumNames}, {1, NumNames}, {LAST, NumNames - 1}}}

\* history record: the operation, its arguments, the clock it read, the map
\* and the file before it, how the write of connections.json that it started
\* ended ("none" when it started none), and after a restart the operation
\* the process had run last; out is the list a query returned
Op(op, name, cfg) ==
    [op |-> op, name |-> name, cfg |-> cfg, t |-> now,
     pre |-> connections, file |-> connections_file,
     written |-> "none", prev |-> "none", out |-> <<>>]

NoOp == [op |-> "none", name |-> LAST, cfg |-> NoConfig, t |-> 0,
         pre |-> EmptyMap, file |-> NoFile,
         written |-> "none", prev |-> "none", out |-> <<>>]

(***************************************************************************)
(* Values of the other subsystems' variables while SpecConn runs.          *)
(***************************************************************************)
SaveIdle ==
    /\ app_settings = <<>>
    /\ config_file = NoFile
    /\ temp_file = NoFile
    /\ mainPc = "idle"
    /\ timer = <<>>
    /\ save_timer = 0
    /\ wpc = <<>>
    /\ fd = <<>>
    /\ hist = <<>>

\* no load_keys call was the last operation on the key list
NotLoaded == [op |-> "none", keys |-> <<>>, entry |-> <<>>, replaced |-> 0]

MatchIdle ==
    /\ pattern = <<>>
    /\ text = <<>>
    /\ result = <<>>
    /\ keys_data = <<>>
    /\ search_entry = <<>>
    /\ tree = <<>>
    /\ loaded = NotLoaded

(***************************************************************************)
(* SpecConn: the connection store.                                         *)
(***************************************************************************)
InitConn ==
    /\ connections_file \in StoredFiles
    /\ connections = load_connections(connections_file).value
    /\ now = 1
    /\ cpc = "idle"
    /\ last = NoOp
    /\ restarted = FALSE
    /\ SaveIdle
    /\ MatchIdle

\* Every mutating handler ends in save_connections(): the GUI thread goes on
\* to the write of connections.json (cpc), and returns when it is over.
Began(op, name, cfg) ==
    /\ last' = [Op(op, name, cfg) EXCEPT !.written = "pending"]
    /\ cpc' = "open"
    /\ now' = now + 1
    /\ UNCHANGED <<connections_file, restarted>>

\* save_connection(name, config), lines 138-180
save_connection(name, cfg) ==
    /\ cpc = "idle"
    /\ now < MaxTime + 1
    /\ connections' \in
          Evict(Put(connections, name, connection_data(connections, name, cfg, now)))
    /\ Began("save_connection", name, cfg)

\* save_connection from the connection dialog
SaveConnection ==
    /\ \E name \in OpNames, cfg \in Configs : save_connection(name, cfg)
    /\ UNCHANGED <<saveVars, matchVars>>

\* save_last_connection(config), lines 228-230
save_last_connection ==
    /\ \E cfg \in Configs : save_connection(LAST, cfg)
    /\ UNCHANGED <<saveVars, matchVars>>

\* (variant: save_connections() of line 209 outside the if of line 207)
name_in_connections_or_not(c, name) == TRUE

\* line 207: if name in self.connections
name_in_connections(c, name) == name \in DOMAIN c

\* delete_connection(name), lines 205-209
delete_connection ==
    /\ cpc = "idle"
    /\ now < MaxTime + 1
    /\ \E name \in OpNames \cup {LAST} :
          LET op == IF name \in DOMAIN connections
                    THEN "delete_connection" ELSE "delete_absent"
          IN  IF name_in_connections(connections, name)
              THEN /\ connections' =
                         Restrict(connections, (DOMAIN connections) \ {name})
                   /\ Began(op, name, NoConfig)
              ELSE /\ last' = Op(op, name, NoConfig)
                   /\ now' = now + 1
                   /\ UNCHANGED <<connections, connections_file, cpc, restarted>>
    /\ UNCHANGED <<saveVars, matchVars>>

\* (variant: the entry stamped as save_connection stamps a new one)
touch_both_times(c, name, t) ==
    [c EXCEPT ![name].last_used = t, ![name].created_time = t]

\* line 237: self.connections[name]["last_used"] = time.time()
touch_last_used(c, name, t) == [c EXCEPT ![name].last_used = t]

\* update_connection_last_used(name), lines 232-238
update_connection_last_used ==
    /\ cpc = "idle"
    /\ now < MaxTime + 1
    /\ \E name \in OpNames \cup {LAST} :
          IF name \in DOMAIN connections
          THEN /\ connections' = touch_last_used(connections, name, now)
               /\ Began("update_connection_last_used", name, NoConfig)
          ELSE /\ last' = Op("update_absent", name, NoConfig)
               /\ now' = now + 1
               /\ UNCHANGED <<connections, connections_file, cpc, restarted>>
    /\ UNCHANGED <<saveVars, matchVars>>

\* import_settings(file_path), lines 397-400: the "connections" member
import_settings ==
    /\ cpc = "idle"
    /\ now < MaxTime + 1
    /\ \E m \in ImportMaps :
          /\ connections' = Update(connections, m)
          /\ Began("import_settings", LAST, NoConfig)
    /\ UNCHANGED <<saveVars, matchVars>>

\* save_connections, line 133: open(self.connections_file, "w") creates or
\* truncates the file itself; when it raises, the handler prints and returns.
ConnOpen ==
    /\ cpc = "open"
    /\ \/ /\ connections_file' = PartialFile
          /\ cpc' = "dump"
          /\ UNCHANGED last
       \/ /\ cpc' = "idle"
          /\ last' = [last EXCEPT !.written = "failed"]
          /\ UNCHANGED connections_file
    /\ UNCHANGED <<connections, now, restarted, saveVars, matchVars>>

\* save_connections, line 134: json.dump and the close of the file; when
\* the write raises, what was written stays in the file.
ConnDump ==
    /\ cpc = "dump"
    /\ \/ /\ connections_file' = JsonFile(json_dump(connections))
          /\ last' = [last EXCEPT !.written = "ok"]
       \/ /\ last' = [last EXCEPT !.written = "failed"]
          /\ UNCHANGED connections_file
    /\ cpc' = "idle"
    /\ UNCHANGED <<connections, now, restarted, saveVars, matchVars>>

\* (variant: the sort of lines 220-224 without reverse=True)
least_recent_of(c, S) ==
    {d \in S : \A k \in S : c[d].last_used <= c[k].last_used}

\* the names sorted() can put first among S: those with the largest
\* last_used (of equal ones the dict order decides, which the model does
\* not keep)
most_recent_of(c, S) ==
    {d \in S : \A k \in S : c[d].last_used >= c[k].last_used}

\* lines 220-224: the orders sorted(..., reverse=True) can give the names S
RECURSIVE sorted_connections(_, _)
sorted_connections(c, S) ==
    IF S = {}
    THEN {<<>>}
    ELSE UNION {{<<d>> \o rest : rest \in sorted_connections(c, S \ {d})} :
                   d \in most_recent_of(c, S)}

\* get_recent_connections(), lines 215-226: the lists it can return
get_recent_connections(c) ==
    {[i \in 1..Len(names) |-> [name |-> names[i], config |-> c[names[i]]]] :
        names \in sorted_connections(c, regular_connections(c))}

\* the connection dialog lists the recent connections
GetRecentConnections ==
    /\ cpc = "idle"
    /\ \E out \in get_recent_connections(connections) :
          last' = [Op("get_recent_connections", LAST, NoConfig) EXCEPT !.out = out]
    /\ UNCHANGED <<connections, connections_file, now, cpc, restarted,
                   saveVars, matchVars>>

\* The process ends (exit, kill or power loss, at any point) and a new one
\* starts: Settings.__init__, line 67.
Restart ==
    /\ ~restarted
    /\ restarted' = TRUE
    /\ connections' = load_connections(connections_file).value
    /\ cpc' = "idle"
    /\ last' = [last EXCEPT !.op = "restart", !.prev = last.op]
    /\ UNCHANGED <<connections_file, now, saveVars, matchVars>>

NextConn ==
    \/ SaveConnection
    \/ save_last_connection
    \/ delete_connection
    \/ update_connection_last_used
    \/ import_settings
    \/ GetRecentConnections
    \/ ConnOpen
    \/ ConnDump
    \/ Restart

SpecConn == InitConn /\ [][NextConn]_vars

(***************************************************************************)
(* SpecSave: the settings record, the debounce timer and the write of      *)
(* settings.json by the timer threads and by the GUI thread.               *)
(*                                                                         *)
(* app_settings keeps three of the dataclass's fields: font_family (k      *)
(* stands for a family name k characters longer than "Consolas"),          *)
(* font_size, and window_width for the five window fields that             *)
(* save_window_geometry assigns.                                           *)
(***************************************************************************)
MainTh   == 0
TimerIds == 1..MaxTimers
Threads  == {MainTh} \cup TimerIds

\* two values of every field: the default and another one
Families == {0, 1}
Sizes    == {DefaultFontSize, DefaultFontSize + 1}
Widths   == {DefaultWidth, DefaultWidth + 1}

AppSettings ==
    [font_family |-> 0, font_size |-> DefaultFontSize, window_width |-> DefaultWidth]

SettingsValues ==
    [font_family : Families, font_size : Sizes, window_width : Widths]

\* length of json.dump's text, up to a constant: sizes and widths of the
\* model have the same number of digits
SerLen(v) == v.font_family

(***************************************************************************)
(* load_app_settings, lines 69-80.                                         *)
(***************************************************************************)
\* a document AppSettings(**data) accepts: an object of known fields
IsSettingsDocument(f) ==
    f.kind = "json" /\ DOMAIN f.data = DOMAIN AppSettings

load_app_settings_try(f) ==
    CASE f.kind = "missing"    -> Returned(AppSettings)
      [] IsSettingsDocument(f) -> Returned(f.data)
      [] OTHER                 -> RaisedIn(AppSettings)

load_app_settings(f) ==
    IF load_app_settings_try(f).raised
    THEN Returned(AppSettings)
    ELSE load_app_settings_try(f)

(***************************************************************************)
(* A write through a handle that was opened with "w": the text goes to     *)
(* offset 0 of the file the handle refers to.  The file is empty unless    *)
(* another handle wrote to it since; a longer text of that writer keeps    *)
(* its tail.                                                               *)
(***************************************************************************)
Overwrite(old, v) ==
    IF old.kind = "json" /\ SerLen(old.data) > SerLen(v)
    THEN PartialFile
    ELSE JsonFile(v)

Exists(f) == f.kind # "missing"

InitHist ==
    [sched      |-> [t \in TimerIds |-> AppSettings],
     superseded |-> {},
     handled    |-> {},
     renames    |-> 0,
     first      |-> NoFile,
     second     |-> NoFile,
     returned   |-> "not returned",
     complete   |-> {}]

ConnIdle ==
    /\ connections = EmptyMap
    /\ connections_file = NoFile
    /\ now = 1
    /\ cpc = "idle"
    /\ last = NoOp
    /\ restarted = FALSE

\* settings.json on start: none yet, or the document of an earlier run
SettingsFiles ==
    {NoFile, JsonFile([AppSettings EXCEPT !.font_family = 1])}

InitSave ==
    /\ config_file \in SettingsFiles
    /\ temp_file \in {NoFile, PartialFile}
    /\ app_settings = load_app_settings(config_file).value
    /\ mainPc = [at |-> "idle", family |-> 0, size |-> DefaultFontSize]
    /\ timer = [t \in TimerIds |-> "unused"]
    /\ save_timer = 0
    /\ wpc = [th \in Threads |-> "none"]
    /\ fd = [th \in Threads |-> "none"]
    /\ hist = [InitHist EXCEPT !.complete = {load_app_settings(config_file).value}]
    /\ ConnIdle
    /\ MatchIdle

UnusedTimers == {t \in TimerIds : timer[t] = "unused"}
NewTimer     == CHOOSE t \in UnusedTimers : \A u \in UnusedTimers : t <= u

At(pc) == [mainPc EXCEPT !.at = pc]

\* set_font(family, size), line 276
set_font_276 ==
    /\ mainPc.at = "idle"
    /\ UnusedTimers # {}
    /\ \E family \in Families, size \in Sizes :
          /\ app_settings' = [app_settings EXCEPT !.font_family = family]
          /\ mainPc' = [at |-> "set_font_277", family |-> family, size |-> size]
    /\ UNCHANGED <<config_file, temp_file, timer, save_timer, wpc, fd, hist,
                   connVars, matchVars>>

\* set_font, line 277
set_font_277 ==
    /\ mainPc.at = "set_font_277"
    /\ app_settings' = [app_settings EXCEPT !.font_size = mainPc.size]
    /\ mainPc' = At("set_font_278")
    /\ hist' = [hist EXCEPT !.complete = @ \cup {app_settings'}]
    /\ UNCHANGED <<config_file, temp_file, timer, save_timer, wpc, fd,
                   connVars, matchVars>>

\* _schedule_save, lines 90-100: cancel() stops a timer that has not fired
\* and does nothing to one that has; then a new Timer is started.
\* (variant: cancel() taken to stop a timer that has fired as well)
CancelAlsoFired ==
    /\ timer' = [t \in TimerIds |->
                    IF t = NewTimer THEN "pending"
                    ELSE IF t = save_timer /\ timer[t] \in {"pending", "fired"}
                         THEN "cancelled"
                    ELSE timer[t]]
    /\ save_timer' = NewTimer

\* (variant without lines 92-93)
StartOnly ==
    /\ timer' = [timer EXCEPT ![NewTimer] = "pending"]
    /\ save_timer' = NewTimer

CancelThenStart ==
    /\ timer' = [t \in TimerIds |->
                    IF t = NewTimer THEN "pending"
                    ELSE IF t = save_timer /\ timer[t] = "pending" THEN "cancelled"
                    ELSE timer[t]]
    /\ save_timer' = NewTimer

schedule_save ==
    /\ CancelThenStart
    /\ hist' = [hist EXCEPT
                  !.sched[NewTimer] = app_settings,
                  !.superseded = IF save_timer # 0 /\ timer[save_timer] = "pending"
                                 THEN @ \cup {save_timer} ELSE @]

\* set_font, line 278: save_app_settings() -> _schedule_save()
set_font_278 ==
    /\ mainPc.at = "set_font_278"
    /\ schedule_save
    /\ mainPc' = At("idle")
    /\ UNCHANGED <<app_settings, config_file, temp_file, wpc, fd,
                   connVars, matchVars>>

\* on_closing, lines 640-653: save_window_geometry assigns the window fields
on_closing_248 ==
    /\ mainPc.at = "idle"
    /\ UnusedTimers # {}
    /\ \E w \in Widths : app_settings' = [app_settings EXCEPT !.window_width = w]
    /\ mainPc' = At("closing_253")
    /\ hist' = [hist EXCEPT !.complete = @ \cup {app_settings'}]
    /\ UNCHANGED <<config_file, temp_file, timer, save_timer, wpc, fd,
                   connVars, matchVars>>

\* save_window_geometry, line 253: save_app_settings() -> _schedule_save()
on_closing_253 ==
    /\ mainPc.at = "closing_253"
    /\ schedule_save
    /\ mainPc' = At("closing_659")
    /\ UNCHANGED <<app_settings, config_file, temp_file, wpc, fd,
                   connVars, matchVars>>

\* save_app_settings, lines 82-88, has no return statement: what the caller
\* gets, whether or not the write met an error
save_app_settings_return == "None"

\* on_closing, line 659: save_app_settings(immediate=True) calls
\* _do_save_app_settings in the GUI thread (lines 84-85) and nothing else
save_app_settings_immediate ==
    /\ mainPc.at = "closing_659"
    /\ wpc[MainTh] = "none"
    /\ wpc' = [wpc EXCEPT ![MainTh] = "open"]
    /\ UNCHANGED <<app_settings, config_file, temp_file, mainPc, timer, save_timer,
                   fd, hist, connVars, matchVars>>

\* on_closing, lines 660-663: the call returned, or raised into the handler
\* around it; root.quit() ends the main loop.  The interpreter then waits for
\* the Timer threads, which are not daemon threads.
on_closing_663 ==
    /\ mainPc.at = "closing_659"
    /\ wpc[MainTh] \in {"done", "raised"}
    /\ mainPc' = At("quit")
    /\ hist' = [hist EXCEPT !.returned = IF wpc[MainTh] = "raised"
                                         THEN "raised"
                                         ELSE save_app_settings_return]
    /\ UNCHANGED <<app_settings, config_file, temp_file, timer, save_timer, wpc,
                   fd, connVars, matchVars>>

\* threading.Timer.run: the delay is over and the timer was not cancelled
TimerFire ==
    /\ \E t \in TimerIds :
          /\ timer[t] = "pending"
          /\ timer' = [timer EXCEPT ![t] = "fired"]
          /\ wpc' = [wpc EXCEPT ![t] = "open"]
    /\ UNCHANGED <<app_settings, config_file, temp_file, mainPc, save_timer,
                   fd, hist, connVars, matchVars>>

(***************************************************************************)
(* _do_save_app_settings, lines 102-117, one action per system call.       *)
(***************************************************************************)
Handled(th) == hist' = [hist EXCEPT !.handled = @ \cup {th}]

\* line 107: open(temp_file, "w") creates settings.tmp or truncates it
DoSaveOpen(th) ==
    /\ wpc[th] = "open"
    /\ \/ /\ temp_file' = PartialFile
          /\ fd' = [fd EXCEPT ![th] = "tmp"]
          /\ wpc' = [wpc EXCEPT ![th] = "dump"]
          /\ UNCHANGED hist
       \/ /\ Handled(th)
          /\ wpc' = [wpc EXCEPT ![th] = "exists"]
          /\ UNCHANGED <<temp_file, fd>>
    /\ UNCHANGED <<app_settings, config_file, mainPc, timer, save_timer>>

\* (variant: the record as it stood when the timer was started)
asdict_when_scheduled(th) ==
    IF th \in TimerIds THEN hist.sched[th] ELSE app_settings

\* line 108: asdict(self.app_settings) reads the record when the write
\* runs; the timer carries no payload
asdict_app_settings(th) == app_settings

\* line 108 and the end of the with block: json.dump fills the handle's
\* buffer and close() writes it out
DoSaveDump(th) ==
    /\ wpc[th] = "dump"
    /\ fd' = [fd EXCEPT ![th] = "none"]
    /\ \/ /\ temp_file' = IF fd[th] = "tmp"
                          THEN Overwrite(temp_file, asdict_app_settings(th))
                          ELSE temp_file
          /\ config_file' = IF fd[th] = "cfg"
                            THEN Overwrite(config_file, asdict_app_settings(th))
                            ELSE config_file
          /\ wpc' = [wpc EXCEPT ![th] = "replace"]
          /\ UNCHANGED hist
       \/ /\ Handled(th)
          /\ temp_file' = IF fd[th] = "tmp" THEN PartialFile ELSE temp_file
          /\ config_file' = IF fd[th] = "cfg" THEN PartialFile ELSE config_file
          /\ wpc' = [wpc EXCEPT ![th] = "exists"]
    /\ UNCHANGED <<app_settings, mainPc, timer, save_timer>>

\* line 111: temp_file.replace(self.config_file); handles that are open on
\* settings.tmp now refer to settings.json, handles on the replaced
\* settings.json to a file without a name
DoSaveReplace(th) ==
    /\ wpc[th] = "replace"
    /\ \/ /\ Exists(temp_file)
          /\ config_file' = temp_file
          /\ temp_file' = NoFile
          /\ fd' = [x \in Threads |->
                      CASE fd[x] = "tmp" -> "cfg"
                        [] fd[x] = "cfg" -> "orphan"
                        [] OTHER         -> fd[x]]
          /\ hist' = [hist EXCEPT !.renames = @ + 1]
          /\ wpc' = [wpc EXCEPT ![th] = "done"]
       \/ /\ ~Exists(temp_file)          \* FileNotFoundError
          /\ Handled(th)
          /\ wpc' = [wpc EXCEPT ![th] = "exists"]
          /\ UNCHANGED <<config_file, temp_file, fd>>
       \/ /\ Exists(temp_file)
          /\ Handled(th)
          /\ wpc' = [wpc EXCEPT ![th] = "exists"]
          /\ UNCHANGED <<config_file, temp_file, fd>>
    /\ UNCHANGED <<app_settings, mainPc, timer, save_timer>>

\* line 116: if temp_file.exists()
DoSaveExists(th) ==
    /\ wpc[th] = "exists"
    /\ wpc' = [wpc EXCEPT ![th] = IF Exists(temp_file) THEN "unlink" ELSE "done"]
    /\ UNCHANGED <<app_settings, config_file, temp_file, mainPc, timer, save_timer,
                   fd, hist>>

\* line 117: temp_file.unlink(), inside the except block: its
\* FileNotFoundError leaves _do_save_app_settings
DoSaveUnlink(th) ==
    /\ wpc[th] = "unlink"
    /\ IF Exists(temp_file)
       THEN /\ temp_file' = NoFile
            /\ fd' = [x \in Threads |-> IF fd[x] = "tmp" THEN "orphan" ELSE fd[x]]
            /\ wpc' = [wpc EXCEPT ![th] = "done"]
       ELSE /\ wpc' = [wpc EXCEPT ![th] = "raised"]
            /\ UNCHANGED <<temp_file, fd>>
    /\ UNCHANGED <<app_settings, config_file, mainPc, timer, save_timer, hist>>

do_save_open ==
    /\ \E th \in Threads : DoSaveOpen(th)
    /\ UNCHANGED <<connVars, matchVars>>

do_save_dump ==
    /\ \E th \in Threads : DoSaveDump(th)
    /\ UNCHANGED <<connVars, matchVars>>

do_save_replace ==
    /\ \E th \in Threads : DoSaveReplace(th)
    /\ UNCHANGED <<connVars, matchVars>>

do_save_exists ==
    /\ \E th \in Threads : DoSaveExists(th)
    /\ UNCHANGED <<connVars, matchVars>>

do_save_unlink ==
    /\ \E th \in Threads : DoSaveUnlink(th)
    /\ UNCHANGED <<connVars, matchVars>>

NextSave ==
    \/ set_font_276
    \/ set_font_277
    \/ set_font_278
    \/ on_closing_248
    \/ on_closing_253
    \/ save_app_settings_immediate
    \/ on_closing_663
    \/ TimerFire
    \/ do_save_open
    \/ do_save_dump
    \/ do_save_replace
    \/ do_save_exists
    \/ do_save_unlink

SpecSave == InitSave /\ [][NextSave]_vars

\* The threads are scheduled: a timer that is due fires, and a thread that
\* is inside _do_save_app_settings takes its next step.  (The steps of the
\* user, set_font and on_closing, are not forced.)
FairThreads ==
    /\ WF_vars(TimerFire)
    /\ WF_vars(do_save_open)
    /\ WF_vars(do_save_dump)
    /\ WF_vars(do_save_replace)
    /\ WF_vars(do_save_exists)
    /\ WF_vars(do_save_unlink)

SpecSaveFair == SpecSave /\ FairThreads

(***************************************************************************)
(* SpecSaveNow: a caller of Settings that, after any number of set_font    *)
(* calls, calls save_app_settings(immediate=True) twice in a row.  The     *)
(* timer threads and _do_save_app_settings are those of SpecSave; hist     *)
(* keeps settings.json as it is when each of the two calls returns.        *)
(***************************************************************************)
\* the first save_app_settings(immediate=True), lines 82-85
save_now_first ==
    /\ mainPc.at = "idle"
    /\ wpc[MainTh] = "none"
    /\ wpc' = [wpc EXCEPT ![MainTh] = "open"]
    /\ mainPc' = At("save_now_first")
    /\ UNCHANGED <<app_settings, config_file, temp_file, timer, save_timer,
                   fd, hist, connVars, matchVars>>

\* the first call returns and the second one begins
save_now_second ==
    /\ mainPc.at = "save_now_first"
    /\ wpc[MainTh] = "done"
    /\ hist' = [hist EXCEPT !.first = config_file]
    /\ wpc' = [wpc EXCEPT ![MainTh] = "open"]
    /\ mainPc' = At("save_now_second")
    /\ UNCHANGED <<app_settings, config_file, temp_file, timer, save_timer,
                   fd, connVars, matchVars>>

\* the second call returns
save_now_returned ==
    /\ mainPc.at = "save_now_second"
    /\ wpc[MainTh] = "done"
    /\ hist' = [hist EXCEPT !.second = config_file]
    /\ mainPc' = At("returned")
    /\ UNCHANGED <<app_settings, config_file, temp_file, timer, save_timer,
                   wpc, fd, connVars, matchVars>>

NextSaveNow ==
    \/ set_font_276
    \/ set_font_277
    \/ set_font_278
    \/ save_now_first
    \/ save_now_second
    \/ save_now_returned
    \/ TimerFire
    \/ do_save_open
    \/ do_save_dump
    \/ do_save_replace
    \/ do_save_exists
    \/ do_save_unlink

SpecSaveNow == InitSave /\ [][NextSaveNow]_vars

(***************************************************************************)
(* Claims about the connection store, checked under SpecConn.              *)
(***************************************************************************)
MutatingOps == {"save_connection", "delete_connection",
                "update_connection_last_used", "import_settings"}

RegularCount(c) == Cardinality(regular_connections(c))

\* C1: after every mutating operation of the connection store
\* (save_connection, delete_connection, update_connection_last_used,
\* save_last_connection, import_settings) the number of entries whose name
\* is not "__last__" is at most 10.
C1_AtMostTenAfterMutation ==
    last.op \in MutatingOps => RegularCount(connections) <= MaxConnections

\* C2: an upsert never removes the "__last__" entry: present before a
\* save_connection of a regular name, it is present with the same value after
\* it, whether or not the map was trimmed to ten.
C2_SentinelSurvivesUpsert ==
    (last.op = "save_connection" /\ last.name # LAST /\ LAST \in DOMAIN last.pre)
        => (LAST \in DOMAIN connections /\ connections[LAST] = last.pre[LAST])

\* the map of an upsert of a new name, before the eviction step
C3_Eleven ==
    Put(last.pre, last.name,
        Entry(last.cfg, last.t, last.t))

C3_AddsEleventh ==
    /\ last.op = "save_connection"
    /\ last.name # LAST
    /\ last.name \notin DOMAIN last.pre
    /\ RegularCount(last.pre) = MaxConnections

\* C3: when an upsert adds an 11th distinct regular profile to a store that
\* holds 10, exactly one regular entry is removed, no other of the 11 has a
\* smaller last_used than it, and the other 10 are kept with their values.
C3_EvictsOldestOfEleven ==
    C3_AddsEleventh =>
        \E e \in regular_connections(C3_Eleven) :
            /\ regular_connections(connections) = regular_connections(C3_Eleven) \ {e}
            /\ \A k \in regular_connections(C3_Eleven) :
                  C3_Eleven[e].last_used <= C3_Eleven[k].last_used
            /\ \A k \in regular_connections(connections) :
                  connections[k] = C3_Eleven[k]

\* an 11th profile was added to ten stored ones, and one stored profile went
C3_Witness ==
    /\ C3_AddsEleventh
    /\ last.name \in DOMAIN connections
    /\ RegularCount(connections) = MaxConnections
    /\ \E e \in DOMAIN last.pre : e # LAST /\ e \notin DOMAIN connections

\* C7: at every step of a store write, and so after a crash between any two
\* of its steps, the target file holds the complete value written before or
\* the complete new value, never a partial or empty one.  Stated of
\* connections.json, which save_connections opens for writing itself.
C7_TargetCompleteDuringWrite ==
    (last.op \in MutatingOps /\ last.file.kind = "json") =>
        connections_file \in {last.file, JsonFile(json_dump(connections))}

\* C21: get_recent_connections returns every entry other than "__last__"
\* exactly once, never the "__last__" entry, ordered by last_used
\* descending, and does not modify the store.
C21_ListRecent ==
    last.op = "get_recent_connections" =>
        /\ {last.out[i].name : i \in 1..Len(last.out)} = (DOMAIN last.pre) \ {LAST}
        /\ Len(last.out) = Cardinality((DOMAIN last.pre) \ {LAST})
        /\ \A i \in 1..Len(last.out) :
              last.out[i].config = last.pre[last.out[i].name]
        /\ \A i \in 1..Len(last.out), j \in 1..Len(last.out) :
              i < j => last.out[i].config.last_used >= last.out[j].config.last_used
        /\ connections = last.pre
        /\ connections_file = last.file
        /\ cpc = "idle"

\* the list of a store of ten profiles and the "__last__" entry, after one
\* of them was touched
C21_Witness ==
    /\ last.op = "get_recent_connections"
    /\ LAST \in DOMAIN last.pre
    /\ Len(last.out) = MaxConnections
    /\ last.out[1].config.last_used = 1
    /\ last.out[1].config.created_time < 0

\* C22: save_last_connection bypasses the count and the eviction: whatever
\* the number of other entries, it adds, removes and alters none of them,
\* and get_last_connection right afterwards returns the configuration
\* written.
C22_SentinelBypassesEviction ==
    (last.op = "save_connection" /\ last.name = LAST) =>
        /\ Restrict(connections, (DOMAIN connections) \ {LAST})
              = Restrict(last.pre, (DOMAIN last.pre) \ {LAST})
        /\ get_connection(connections, LAST) = last.cfg

\* (C22 on the stores of at most ten regular entries)
C22_SentinelWithinLimit ==
    RegularCount(last.pre) <= MaxConnections => C22_SentinelBypassesEviction

\* the policy of the comparison: the eviction step run only when the name
\* upserted is a new one
EvictOnNewNameOnly(c, name, cfg, t) ==
    IF name \in DOMAIN c
    THEN {Put(c, name, connection_data(c, name, cfg, t))}
    ELSE Evict(Put(c, name, connection_data(c, name, cfg, t)))

\* C26: the eviction step on every upsert and the eviction step only on the
\* upsert of a new name give the same map, in every store state and for
\* every upsert.
C26_EvictionPoliciesAgree ==
    (last.op = "save_connection" /\ last.name # LAST) =>
        connections \in EvictOnNewNameOnly(last.pre, last.name, last.cfg, last.t)

\* (C26 on the stores of at most ten regular entries)
C26_PoliciesAgreeWithinLimit ==
    RegularCount(last.pre) <= MaxConnections => C26_EvictionPoliciesAgree

\* C15: round trip.  After save_connection(a, P) of a regular name, the
\* write of connections.json completed and the file loaded again by a new
\* process, the profile a has P's value in each of the eight configuration
\* fields and the time of the upsert as last_used.
C15_RoundTrip ==
    (/\ last.op = "restart"
     /\ last.prev = "save_connection"
     /\ last.name # LAST
     /\ last.written = "ok")
        => /\ last.name \in DOMAIN connections
           /\ \A f \in ConfigFields : connections[last.name][f] = last.cfg[f]
           /\ connections[last.name].last_used = last.t
           /\ get_connection(connections, last.name) = last.cfg

\* a profile without a password, saved as the eleventh and loaded again
C15_Witness ==
    /\ last.op = "restart"
    /\ last.prev = "save_connection"
    /\ last.written = "ok"
    /\ last.name = MaxConnections + 1
    /\ last.cfg.password = None
    /\ RegularCount(last.pre) = MaxConnections
    /\ get_connection(connections, last.name) = last.cfg

C18_NoWriteInCallingThread ==
    (last.op \in {"save_connection", "delete_connection"} /\ cpc # "idle") =>
        connections_file = last.file

\* C19: delete_connection(name) removes the entry name, when there is one,
\* and leaves every other entry as it was; when there is none it changes
\* nothing in memory and starts no save.
C19_DeleteExactlyOne ==
    last.op \in {"delete_connection", "delete_absent"} =>
        IF last.name \in DOMAIN last.pre
        THEN connections = Restrict(last.pre, (DOMAIN last.pre) \ {last.name})
        ELSE /\ connections = last.pre
             /\ cpc = "idle"
             /\ last.written = "none"
             /\ connections_file = last.file

\* a removal from a store of ten, and a removal of a name that is not there
C19_Witness ==
    \/ /\ last.op = "delete_connection"
       /\ RegularCount(last.pre) = MaxConnections
       /\ RegularCount(connections) = MaxConnections - 1
       /\ last.written = "ok"
    \/ /\ last.op = "delete_absent"
       /\ last.pre # EmptyMap
       /\ connections = last.pre

\* C20: update_connection_last_used(name) of an existing entry changes that
\* entry's last_used and nothing else: its other fields, the other entries
\* and the set of names stay, and nothing is evicted.  For a name that is
\* not there it changes nothing and starts no save.
C20_TouchOnlyLastUsed ==
    /\ last.op = "update_connection_last_used" =>
          /\ DOMAIN connections = DOMAIN last.pre
          /\ \A n \in DOMAIN connections :
                \A f \in DOMAIN connections[n] :
                    connections[n][f] =
                        (IF n = last.name /\ f = "last_used"
                         THEN last.t ELSE last.pre[n][f])
    /\ last.op = "update_absent" =>
          /\ connections = last.pre
          /\ cpc = "idle"
          /\ last.written = "none"
          /\ connections_file = last.file

\* the oldest of ten profiles touched: it stays, with the new time
C20_Witness ==
    /\ last.op = "update_connection_last_used"
    /\ RegularCount(last.pre) = MaxConnections
    /\ last.name \in Oldest(last.pre)
    /\ connections[last.name].last_used = last.t
    /\ connections[last.name].created_time = last.pre[last.name].created_time

(***************************************************************************)
(* Claims about the settings writes, checked under SpecSave.               *)
(***************************************************************************)
Writing(th) == wpc[th] \in {"dump", "replace"}

\* the thread's write is over, it met no error, and no other thread has
\* written in this run
WroteAlone(th) ==
    /\ wpc[th] = "done"
    /\ th \notin hist.handled
    /\ \A x \in Threads \ {th} : wpc[x] = "none"

\* C4: a save scheduled while the timer of an earlier request has not fired
\* replaces that request: the earlier timer never writes, and when the later
\* timer has written, with no further setter call and no other writer, there
\* was exactly one file write and settings.json holds the record of the
\* later call.
C4_DebounceCoalesces ==
    \A t \in hist.superseded :
        /\ wpc[t] = "none"
        /\ (WroteAlone(t + 1) /\ save_timer = t + 1 /\ mainPc.at = "idle")
              => (hist.renames = 1 /\ config_file = JsonFile(hist.sched[t + 1]))

\* two requests with different records were coalesced and the second was written
C4_Witness ==
    \E t \in hist.superseded :
        /\ WroteAlone(t + 1) /\ save_timer = t + 1 /\ mainPc.at = "idle"
        /\ hist.sched[t] # hist.sched[t + 1]
        /\ config_file = JsonFile(hist.sched[t + 1])

\* C5: at any moment at most one thread is between opening settings.tmp and
\* renaming it.
C5_SingleWriterInFlight ==
    Cardinality({th \in Threads : Writing(th)}) <= 1

\* C6: after the immediate save of on_closing has returned, no timer
\* scheduled earlier is still pending.
C6_NoPendingTimerAfterSaveNow ==
    mainPc.at = "quit" => \A t \in TimerIds : timer[t] # "pending"

\* no thread is inside _do_save_app_settings
NoWriteGoingOn == \A th \in Threads : wpc[th] \in {"none", "done", "raised"}

\* C8: when a step of a write fails, no exception reaches the caller and,
\* the write being over, the temporary file does not exist.  (No step of the
\* write assigns to app_settings, so the record in memory stays as it was.)
C8_FailedWriteIsContained ==
    \A th \in hist.handled :
        /\ wpc[th] # "raised"
        /\ (wpc[th] = "done" /\ NoWriteGoingOn) => ~Exists(temp_file)

\* C16: two consecutive save_app_settings(immediate=True) calls, neither of
\* which met an error, with app_settings unchanged between them, leave
\* settings.json with the same content after the first and after the second.
C16_SaveNowIdempotent ==
    (mainPc.at = "returned" /\ MainTh \notin hist.handled) =>
        hist.first = hist.second

\* (C16 when no timer thread has run)
C16_SaveNowIdempotentAlone ==
    (\A t \in TimerIds : timer[t] \in {"unused", "pending"}) =>
        C16_SaveNowIdempotent

PendingTimers == {t \in TimerIds : timer[t] = "pending"}

\* C23: every _schedule_save call supersedes the timer that has not fired
\* and restarts the delay: at most one timer is pending, and a timer's
\* write starts (the timer fires: its full delay is over and its thread
\* calls _do_save_app_settings) only for the timer that the most recent
\* _schedule_save call started.
C23_DebounceRestartsDeadline ==
    /\ [](Cardinality(PendingTimers) <= 1)
    /\ [][\A t \in TimerIds :
            (timer[t] = "pending" /\ timer'[t] = "fired") => save_timer = t]_vars

\* a second request while the first timer was pending: the first is
\* cancelled and the second pending
C23_Witness ==
    /\ timer[1] = "cancelled"
    /\ timer[2] = "pending"
    /\ save_timer = 2
    /\ wpc[1] = "none"

\* C24: a write failure in save_app_settings(immediate=True) is reported to
\* its direct caller as a result value (a failure of a timer's write is
\* swallowed): when the immediate write met an error, on_closing gets a
\* value other than the one a successful call returns.
C24_FailureReportedToCaller ==
    (mainPc.at = "quit" /\ MainTh \in hist.handled) =>
        hist.returned # save_app_settings_return

\* C25: a timer that has fired is never cancelled and its write is never
\* taken back by a later _schedule_save or immediate save; the write runs
\* through to its rename or to its failure cleanup.
C25_StartedWriteRunsThrough ==
    /\ [][\A t \in TimerIds :
            /\ timer[t] = "fired" => timer'[t] = "fired"
            /\ wpc[t] # "none" => wpc'[t] # "none"]_vars
    /\ \A t \in TimerIds :
          (timer[t] = "fired") ~> (wpc[t] \in {"done", "raised"})

\* the first timer's write ended while a later request's timer is pending
C25_Witness ==
    /\ timer[1] = "fired"
    /\ wpc[1] = "done"
    /\ timer[2] = "pending"
    /\ hist.renames = 1

\* the record the setter call in progress leaves when it is complete
RecordWhenComplete ==
    IF mainPc.at = "set_font_277"
    THEN [app_settings EXCEPT !.font_size = mainPc.size]
    ELSE app_settings

\* C29: no torn snapshot: every record a timer thread serialises to disk
\* is the in-memory record as it stood after a complete setter call (or
\* after construction), never one in which set_font has assigned
\* font_family and not yet font_size.  (A record taken in the middle of a
\* call that changes nothing further is not counted as torn.)
C29_NoTornSnapshot ==
    [][\A th \in TimerIds :
          (wpc[th] = "dump" /\ wpc'[th] = "replace") =>
              \/ asdict_app_settings(th) \in hist.complete
              \/ asdict_app_settings(th) = RecordWhenComplete]_vars

\* no setter call and no write is in progress and no timer is waiting
SaveQuiescent ==
    /\ mainPc.at \in {"idle", "closing_659", "quit"}
    /\ \A th \in Threads : wpc[th] \in {"none", "done", "raised"}
    /\ PendingTimers = {}

\* C30: no scheduled save is lost: after the last _schedule_save, when no
\* step of any write failed, its timer fires and, once the writes have
\* ended, settings.json holds the in-memory record; a timer that is
\* pending is fired or superseded.  This covers on_closing, whose immediate
\* save runs next to the timer that save_window_geometry started.
C30_NoScheduledSaveLost ==
    /\ []((SaveQuiescent /\ save_timer # 0 /\ hist.handled = {})
            => /\ timer[save_timer] = "fired"
               /\ config_file = JsonFile(app_settings))
    /\ \A t \in TimerIds :
          (timer[t] = "pending") ~> (timer[t] \in {"fired", "cancelled"})

\* on_closing ran to root.quit(): its immediate save and the timer of
\* save_window_geometry both wrote, no step failed
C30_Witness ==
    /\ mainPc.at = "quit"
    /\ wpc[MainTh] = "done"
    /\ save_timer # 0
    /\ timer[save_timer] = "fired"
    /\ wpc[save_timer] = "done"
    /\ hist.handled = {}
    /\ hist.renames >= 2
    /\ config_file = JsonFile(app_settings)

(***************************************************************************)
(* SpecLoad: Settings.__init__ on the files a start can find.              *)
(***************************************************************************)
\* a JSON document with a key AppSettings does not know: AppSettings(**data)
\* raises TypeError
UnknownKeyFile == JsonFile([font_family |-> 0, font_color |-> 0])

SettingsFilesOnStart ==
    {NoFile, Unreadable, PartialFile, UnknownKeyFile}
    \cup {JsonFile(v) : v \in SettingsValues}

InitLoad ==
    /\ config_file \in SettingsFilesOnStart
    /\ connections_file \in StoredFiles
    /\ app_settings = <<>>
    /\ connections = EmptyMap
    /\ mainPc = "unconstructed"
    /\ temp_file = NoFile
    /\ timer = <<>>
    /\ save_timer = 0
    /\ wpc = <<>>
    /\ fd = <<>>
    /\ hist = <<>>
    /\ now = 1
    /\ cpc = "idle"
    /\ last = NoOp
    /\ restarted = FALSE
    /\ MatchIdle

\* Settings.__init__, lines 65-67: an exception of a loader would leave the
\* constructor
Settings_init ==
    /\ mainPc = "unconstructed"
    /\ IF load_app_settings(config_file).raised
          \/ load_connections(connections_file).raised
       THEN /\ mainPc' = "raised"
            /\ UNCHANGED <<app_settings, connections>>
       ELSE /\ app_settings' = load_app_settings(config_file).value
            /\ connections' = load_connections(connections_file).value
            /\ mainPc' = "constructed"
    /\ UNCHANGED <<config_file, connections_file, temp_file, timer, save_timer, wpc,
                   fd, hist, now, cpc, last, restarted, matchVars>>

NextLoad == Settings_init

SpecLoad == InitLoad /\ [][NextLoad]_vars

(***************************************************************************)
(* SpecMatch: KeyBrowser.fuzzy_match on every pattern and key name over a  *)
(* small alphabet: a letter in both cases, a separator, and the one        *)
(* character whose lower case is longer than itself.                       *)
(*   Strings are sequences of characters; Python's indices start at 0.     *)
(*   "I" stands for U+0130 (capital I with dot above) and "~" for U+0307   *)
(* (combining dot above): str.lower maps U+0130 to the two characters      *)
(* U+0069 U+0307, and it is the only character str.lower lengthens.        *)
(***************************************************************************)
Alphabet == {"a", "A", ":", "I", "i", "~"}

\* str.lower of one character
LowerChar(ch) ==
    CASE ch = "A" -> <<"a">>
      [] ch = "U" -> <<"u">>
      [] ch = "I" -> <<"i", "~">>
      [] OTHER    -> <<ch>>

\* str.lower
RECURSIVE lower(_)
lower(s) == IF s = <<>> THEN <<>> ELSE LowerChar(Head(s)) \o lower(Tail(s))

StringsUpTo(n) == UNION {[1..k -> Alphabet] : k \in 0..n}

Min(S) == CHOOSE x \in S : \A y \in S : x <= y

\* (variant: text.find(char), the search always from index 0)
findFromStart(t, ch, text_idx) ==
    LET hits == {i \in 0..(Len(t) - 1) : t[i + 1] = ch}
    IN  IF hits = {} THEN 0 - 1 ELSE Min(hits)

\* text.find(char, text_idx): the first index at or after text_idx, or -1
find(t, ch, text_idx) ==
    LET hits == {i \in text_idx..(Len(t) - 1) : t[i + 1] = ch}
    IN  IF hits = {} THEN 0 - 1 ELSE Min(hits)

NoMatch == [matched |-> FALSE, score |-> 0, positions |-> <<>>]

\* _calculate_match_score, lines 234-274
calculate_match_score(p, t, positions) ==
    IF positions = <<>> THEN 0
    ELSE
      LET n == Len(positions)
          consecutive_bonus ==
              50 * Cardinality({i \in 2..n : positions[i] = positions[i - 1] + 1})
          start_bonus == IF positions[1] = 0 THEN 200 ELSE 0
          word_boundary_bonus ==
              30 * Cardinality({i \in 1..n :
                      positions[i] > 0 /\ t[positions[i]] \in {"_", ".", "-", ":"}})
          span == positions[n] - positions[1] + 1
          density_bonus ==
              IF n > 1 THEN (IF 100 - span > 0 THEN 100 - span ELSE 0) ELSE 0
      IN  Len(p) * 100 + consecutive_bonus + start_bonus + word_boundary_bonus
            + density_bonus - Len(t)

\* the loop of lines 220-227, from pattern character k on
RECURSIVE match_from(_, _, _, _, _)
match_from(p, t, k, text_idx, match_positions) ==
    IF k > Len(p)
    THEN [matched |-> TRUE,
          score |-> calculate_match_score(p, t, match_positions),
          positions |-> match_positions]
    ELSE LET found_idx == find(t, p[k], text_idx)
         IN  IF found_idx = 0 - 1
             THEN NoMatch
             ELSE match_from(p, t, k + 1, found_idx + 1,
                             Append(match_positions, found_idx))

\* (variant: a guard that rejects the empty text ahead of the pattern test)
fuzzy_match_text_guard(p, t) ==
    IF t = <<>>
    THEN NoMatch
    ELSE IF p = <<>>
         THEN [matched |-> TRUE, score |-> 0, positions |-> <<>>]
         ELSE IF Len(lower(p)) > Len(lower(t))
              THEN NoMatch
              ELSE match_from(lower(p), lower(t), 1, 0, <<>>)

\* fuzzy_match(pattern, text), lines 201-232
fuzzy_match(p, t) ==
    IF p = <<>>
    THEN [matched |-> TRUE, score |-> 0, positions |-> <<>>]
    ELSE IF Len(lower(p)) > Len(lower(t))
         THEN NoMatch
         ELSE match_from(lower(p), lower(t), 1, 0, <<>>)

NotCalled == [matched |-> FALSE, score |-> 0 - 1, positions |-> <<>>]

InitMatch ==
    /\ pattern \in StringsUpTo(MaxPatLen)
    /\ text \in StringsUpTo(MaxTextLen)
    /\ result = NotCalled
    /\ keys_data = <<>>
    /\ search_entry = <<>>
    /\ tree = <<>>
    /\ loaded = NotLoaded
    /\ SaveIdle
    /\ ConnIdle

CallFuzzyMatch ==
    /\ result = NotCalled
    /\ result' = fuzzy_match(pattern, text)
    /\ UNCHANGED <<pattern, text, keys_data, search_entry, tree, loaded,
                   connVars, saveVars>>

NextMatch == CallFuzzyMatch

SpecMatch == InitMatch /\ [][NextMatch]_vars

(***************************************************************************)
(* SpecSearch: the key list of KeyBrowser.  load_keys stores the fetched   *)
(* keys and on_search_changed follows every edit of the search entry; both *)
(* end in apply_search_filter, which fills the tree.                       *)
(***************************************************************************)
\* key names: the three of the spec's example and two short ones
Key_user100    == <<"u", "s", "e", "r", ":", "1", "0", "0">>
Key_user200    == <<"u", "s", "e", "r", ":", "2", "0", "0">>
Key_session100 == <<"s", "e", "s", "s", "i", "o", "n", ":", "1", "0", "0">>
Key_u1         == <<"u", "1">>
KeyNames       == {Key_user100, Key_user200, Key_session100, Key_u1}

\* the lists redis_client returns
KeyLists == UNION {[1..k -> KeyNames] : k \in 0..MaxKeys}

\* what the user types into the search entry
SearchTexts ==
    {<<>>, <<" ">>, <<"u", "1">>, <<"U", "1">>, <<"u">>, <<"s">>, <<"1">>,
     <<" ", "u">>, <<"u", "1", " ">>, <<"e", "s">>}

\* str.strip(): leading and trailing whitespace removed
RECURSIVE lstrip(_)
lstrip(s) == IF s # <<>> /\ Head(s) = " " THEN lstrip(Tail(s)) ELSE s

RECURSIVE rstrip(_)
rstrip(s) ==
    IF s # <<>> /\ s[Len(s)] = " " THEN rstrip(SubSeq(s, 1, Len(s) - 1)) ELSE s

strip(s) == rstrip(lstrip(s))

\* lines 292-296: the (key, score) pairs of the keys that match, in the order
\* of keys_data
RECURSIVE matches_of(_, _)
matches_of(search_term, keys) ==
    IF keys = <<>>
    THEN <<>>
    ELSE LET m == fuzzy_match(search_term, Head(keys))
         IN  (IF m.matched
              THEN <<[key |-> Head(keys), score |-> m.score]>>
              ELSE <<>>)
             \o matches_of(search_term, Tail(keys))

\* (variant: an ascending sort reversed afterwards, which reverses the order
\* of equal scores as well)
insert_before_equal(sorted, m) ==
    LET k == Cardinality({i \in 1..Len(sorted) : sorted[i].score > m.score})
    IN  SubSeq(sorted, 1, k) \o <<m>> \o SubSeq(sorted, k + 1, Len(sorted))

\* one element put into a list sorted by score descending, after every
\* element whose score is greater or equal
insert_by_score(sorted, m) ==
    LET k == Cardinality({i \in 1..Len(sorted) : sorted[i].score >= m.score})
    IN  SubSeq(sorted, 1, k) \o <<m>> \o SubSeq(sorted, k + 1, Len(sorted))

\* line 299: matches.sort(key=lambda x: x[1], reverse=True); list.sort is
\* stable, with reverse=True too
RECURSIVE sort_by_score(_)
sort_by_score(ms) ==
    IF ms = <<>>
    THEN <<>>
    ELSE insert_by_score(sort_by_score(SubSeq(ms, 1, Len(ms) - 1)), ms[Len(ms)])

\* line 283: search_term = self.search_entry.get().strip()
search_term_of(entry) == strip(entry)

\* (variant: the return of line 289 ahead of the loop of lines 287-288)
apply_search_filter_early_return(keys, entry) ==
    IF search_term_of(entry) = <<>>
    THEN <<>>
    ELSE LET sorted == sort_by_score(matches_of(search_term_of(entry), keys))
         IN  [i \in 1..Len(sorted) |-> sorted[i].key]

\* apply_search_filter, lines 276-304: the rows of the tree afterwards
apply_search_filter(keys, entry) ==
    IF search_term_of(entry) = <<>>
    THEN keys
    ELSE LET sorted == sort_by_score(matches_of(search_term_of(entry), keys))
         IN  [i \in 1..Len(sorted) |-> sorted[i].key]

InitSearch ==
    /\ keys_data = <<>>
    /\ search_entry = <<>>
    /\ tree = <<>>
    /\ loaded = NotLoaded
    /\ pattern = <<>>
    /\ text = <<>>
    /\ result = <<>>
    /\ SaveIdle
    /\ ConnIdle

\* (variant: clear() without line 466)
clear_keeps_search_entry(entry) == entry

\* clear, line 466: self.search_entry.delete(0, tk.END)
clear_search_entry(entry) == <<>>

\* load_keys(keys), lines 190-199: clear() empties the tree, the list and the
\* search entry; the keys are stored and the filter is applied
load_keys ==
    /\ \E keys \in KeyLists :
          /\ keys_data' = keys
          /\ search_entry' = clear_search_entry(search_entry)
          /\ tree' = apply_search_filter(keys, search_entry')
          /\ loaded' = [op |-> "load_keys", keys |-> keys,
                        entry |-> search_entry, replaced |-> Len(keys_data)]
    /\ UNCHANGED <<pattern, text, result, connVars, saveVars>>

\* a key released in the search entry: on_search_changed, lines 306-308
on_search_changed ==
    /\ \E entry \in SearchTexts :
          /\ search_entry' = entry
          /\ tree' = apply_search_filter(keys_data, entry)
    /\ loaded' = NotLoaded
    /\ UNCHANGED <<keys_data, pattern, text, result, connVars, saveVars>>

NextSearch ==
    \/ load_keys
    \/ on_search_changed

SpecSearch == InitSearch /\ [][NextSearch]_vars

(***************************************************************************)
(* Claims about the loaders (SpecLoad) and the matcher (SpecMatch).        *)
(***************************************************************************)
\* C9: the loaders return the default value (default AppSettings, empty
\* connection map) when the file is missing, unreadable or does not parse,
\* and raise nothing into the constructor.
C9_LoadFallsBackToDefault ==
    /\ mainPc # "raised"
    /\ mainPc = "constructed" =>
          /\ (~IsSettingsDocument(config_file) => app_settings = AppSettings)
          /\ (connections_file.kind # "json" => connections = EmptyMap)

\* a start on a truncated connections file and an unreadable settings file
C9_Witness ==
    /\ mainPc = "constructed"
    /\ connections_file.kind = "partial"
    /\ config_file.kind = "unreadable"
    /\ connections = EmptyMap
    /\ app_settings = AppSettings

\* p occurs in t, in order, as a subsequence: p's last character occurs
\* somewhere in t, and the rest of p is a subsequence of what precedes it
RECURSIVE IsSubsequence(_, _)
IsSubsequence(p, t) ==
    IF p = <<>>
    THEN TRUE
    ELSE \E i \in 1..Len(t) :
            /\ t[i] = p[Len(p)]
            /\ IsSubsequence(SubSeq(p, 1, Len(p) - 1), SubSeq(t, 1, i - 1))

Separators == {"_", ".", "-", ":"}

\* C11: for every match with a non-empty pattern the score is
\* 100 * len(pattern), + 50 per pair of adjacent matched positions exactly
\* one apart, + 200 if the first matched position is 0, + 30 per matched
\* position immediately preceded by one of _ . - :, + max(0, 100 - span)
\* when more than one position matched (span = last - first + 1),
\* - len(candidate).
C11_ScoreFormula ==
    (result # NotCalled /\ result.matched /\ pattern # <<>>) =>
        LET pos  == result.positions
            n    == Len(pos)
            runs == Cardinality({i \in 2..n : pos[i] - pos[i - 1] = 1})
            seps == Cardinality({i \in 1..n :
                        /\ pos[i] >= 1
                        /\ pos[i] <= Len(text)
                        /\ text[pos[i]] \in Separators})
            span == pos[n] - pos[1] + 1
        IN  result.score =
                100 * Len(pattern)
                + 50 * runs
                + (IF pos[1] = 0 THEN 200 ELSE 0)
                + 30 * seps
                + (IF n > 1 THEN (IF span < 100 THEN 100 - span ELSE 0) ELSE 0)
                - Len(text)

\* (C11 on the inputs whose lower case has their own length)
C11_ScoreFormulaSameLength ==
    (Len(lower(pattern)) = Len(pattern) /\ Len(lower(text)) = Len(text))
        => C11_ScoreFormula

\* C14: fuzzy_match with an empty pattern matches every candidate, the empty
\* one included, with score 0 and an empty list of positions.
C14_EmptyPatternMatchesAll ==
    (result # NotCalled /\ pattern = <<>>) =>
        /\ result.matched
        /\ result.score = 0
        /\ result.positions = <<>>

\* the empty pattern against the empty candidate
C14_Witness ==
    /\ result # NotCalled
    /\ pattern = <<>>
    /\ text = <<>>
    /\ result.matched

\* positions embeds the lower-cased pattern in the lower-cased text: valid
\* indices, the pattern's characters, strictly increasing, each the first
\* occurrence at or after the previous position + 1
LeftmostGreedy(pos, p, t) ==
    /\ Len(pos) = Len(p)
    /\ \A i \in 1..Len(pos) :
          /\ pos[i] \in 0..(Len(t) - 1)
          /\ t[pos[i] + 1] = p[i]
          /\ i > 1 => pos[i] > pos[i - 1]
          /\ \A j \in (IF i = 1 THEN 0 ELSE pos[i - 1] + 1)..(pos[i] - 1) :
                t[j + 1] # p[i]

\* C27: for every match with a non-empty pattern, positions has exactly
\* len(pattern) entries, is strictly increasing, every entry is a valid
\* index of the lower-cased candidate whose character there is the
\* corresponding pattern character, and each entry is the first such index
\* at or after the previous entry + 1.
C27_PositionsLeftmostGreedy ==
    (result # NotCalled /\ result.matched /\ pattern # <<>>) =>
        /\ Len(result.positions) = Len(pattern)
        /\ LeftmostGreedy(result.positions, lower(pattern), lower(text))

\* (C27 without the count: the embedding of the lower-cased pattern)
C27_PositionsOfLoweredPattern ==
    (result # NotCalled /\ result.matched /\ pattern # <<>>) =>
        LeftmostGreedy(result.positions, lower(pattern), lower(text))

(***************************************************************************)
(* Claims about the key list, checked under SpecSearch.                    *)
(***************************************************************************)
\* the indices of the candidates that match pattern p
Matching(p) == {i \in 1..Len(keys_data) : fuzzy_match(p, keys_data[i]).matched}

ScoreAt(p, i) == fuzzy_match(p, keys_data[i]).score

\* candidate i comes before candidate j: the higher score first, and of two
\* equal scores the one that is earlier in the candidate list
ComesBefore(p, i, j) ==
    \/ ScoreAt(p, i) > ScoreAt(p, j)
    \/ ScoreAt(p, i) = ScoreAt(p, j) /\ i < j

\* the result of search(p): row k is the matching candidate with k - 1
\* matching candidates before it
SearchResult(p) ==
    [k \in 1..Cardinality(Matching(p)) |->
        keys_data[CHOOSE i \in Matching(p) :
            Cardinality({j \in Matching(p) : ComesBefore(p, j, i)}) = k - 1]]

\* C12 (as stated): for a non-empty pattern the search returns exactly the
\* candidates that match, each as often as it occurs, ordered by score
\* descending, equal scores in their original order; for user:100, user:200,
\* session:100 and the pattern u1 the result is user:100 alone.
C12_SearchFiltersAndSorts ==
    search_entry # <<>> => tree = SearchResult(search_entry)

\* C12 (amended): the same of the pattern with its leading and trailing
\* whitespace removed, when that is not empty.
C12_SearchFiltersAndSortsStripped ==
    /\ strip(search_entry) # <<>> => tree = SearchResult(strip(search_entry))
    /\ (/\ keys_data = <<Key_user100, Key_user200, Key_session100>>
        /\ search_entry = <<"u", "1">>)
          => tree = <<Key_user100>>

\* two candidates of equal score behind one of a higher score that was
\* fetched last
C12_Witness ==
    /\ keys_data = <<Key_user200, Key_user100, Key_u1>>
    /\ search_entry = <<"u">>
    /\ tree = <<Key_u1, Key_user200, Key_user100>>

\* C13: with an empty pattern the search returns all candidates, unfiltered,
\* in their original order.
C13_EmptyPatternReturnsAll ==
    search_entry = <<>> => tree = keys_data

\* an empty search entry over three fetched keys, one of them twice
C13_Witness ==
    /\ search_entry = <<>>
    /\ keys_data = <<Key_session100, Key_user100, Key_session100>>
    /\ tree = keys_data

\* C28: load_keys(K) replaces the candidate set wholesale and resets the
\* search entry to empty: right after any load the tree shows K in fetch
\* order, whatever keys and search text were there before.
C28_LoadReplacesAndResets ==
    loaded.op = "load_keys" =>
        /\ keys_data = loaded.keys
        /\ search_entry = <<>>
        /\ tree = loaded.keys

\* a load of three keys over two keys that the search text "s" had
\* filtered; one of the new keys does not match "s"
C28_Witness ==
    /\ loaded.op = "load_keys"
    /\ loaded.entry = <<"s">>
    /\ loaded.replaced = 2
    /\ loaded.keys = <<Key_u1, Key_user200, Key_user100>>
    /\ tree = <<Key_u1, Key_user200, Key_user100>>


====
